---------------------------- MODULE Spec2Model ----------------------------
(***************************************************************************)
(* Model of app.py: the product CSV transformer.                           *)
(*                                                                         *)
(* A Python str is a sequence of one-character strings, so that strip,     *)
(* lower, startswith, split and the float and regex scans are computed     *)
(* character by character.  Python's None is the value NoneValue, which    *)
(* is no str: its single element is not a character.                       *)
(***************************************************************************)
EXTENDS Integers, Sequences, FiniteSets, TLC

VARIABLES
    pc,             \* where the running call stands
    header,         \* csv.DictReader's fieldnames: the raw header cells
    batch,          \* the data rows the reader has yielded so far (cells)
    filtered_rows,  \* process_csv's local list of admitted records
    skipped_rows,   \* process_csv's local list of (idx, error, title)
    row_count,      \* process_csv's local counter
    first_row,      \* process_csv's local: the first raw row, <<>> for None
    returned,       \* what the last call returned, <<>> before it returns
    uploads,        \* how many files have been uploaded (history)
    rows_before,    \* rows consumed by earlier uploads (history)
    arg,            \* the argument(s) of a single call of a pure function
    ret             \* its result, <<>> before it returns

vars == <<pc, header, batch, filtered_rows, skipped_rows, row_count,
          first_row, returned, uploads, rows_before, arg, ret>>

---------------------------------------------------------------------------
(* Bounds of the model. *)
MaxRows == 2
MaxUploads == 2
MaxAmountLen == 3

---------------------------------------------------------------------------
(* Python values. *)

NoneValue == <<"<None>">>

\* bool(v) of a str or None
Truthy(v) == v /= NoneValue /\ v /= <<>>

\* str(v) of a str or None
Str(v) == IF v = NoneValue THEN <<"N","o","n","e">> ELSE v

Whitespace == {" ", "\t"}
Digits == {"0", "1", "2", "3", "4", "5", "6", "7", "8", "9"}
UpperLetters == <<"A","B","C","D","E","F","G","H","I","J","K","L","M",
                  "N","O","P","Q","R","S","T","U","V","W","X","Y","Z">>
LowerLetters == <<"a","b","c","d","e","f","g","h","i","j","k","l","m",
                  "n","o","p","q","r","s","t","u","v","w","x","y","z">>

Range(s) == {s[i] : i \in 1..Len(s)}

LowerChar(c) ==
    IF \E i \in 1..26 : UpperLetters[i] = c
    THEN LowerLetters[CHOOSE i \in 1..26 : UpperLetters[i] = c]
    ELSE c

UpperChar(c) ==
    IF \E i \in 1..26 : LowerLetters[i] = c
    THEN UpperLetters[CHOOSE i \in 1..26 : LowerLetters[i] = c]
    ELSE c

\* s.lower(), s.upper()
Lower(s) == [i \in 1..Len(s) |-> LowerChar(s[i])]
Upper(s) == [i \in 1..Len(s) |-> UpperChar(s[i])]

RECURSIVE LStrip(_)
LStrip(s) == IF s /= <<>> /\ Head(s) \in Whitespace THEN LStrip(Tail(s)) ELSE s

RECURSIVE RStrip(_)
RStrip(s) ==
    IF s /= <<>> /\ s[Len(s)] \in Whitespace
    THEN RStrip(SubSeq(s, 1, Len(s) - 1))
    ELSE s

\* s.strip()
Strip(s) == RStrip(LStrip(s))

\* s.startswith(p)
StartsWith(s, p) == Len(s) >= Len(p) /\ SubSeq(s, 1, Len(p)) = p

\* s.isalnum(), over ASCII
IsAlnum(s) ==
    /\ s /= <<>>
    /\ \A i \in 1..Len(s) :
          s[i] \in Digits \cup Range(UpperLetters) \cup Range(LowerLetters)

\* s.replace(c, "") for a one-character c
RECURSIVE Remove(_, _)
Remove(s, c) ==
    IF s = <<>> THEN <<>>
    ELSE IF Head(s) = c THEN Remove(Tail(s), c)
    ELSE <<Head(s)>> \o Remove(Tail(s), c)

\* s.split(c) for a one-character c
RECURSIVE Split(_, _)
Split(s, c) ==
    IF \A i \in 1..Len(s) : s[i] /= c THEN <<s>>
    ELSE LET k == CHOOSE i \in 1..Len(s) :
                     s[i] = c /\ \A j \in 1..(i - 1) : s[j] /= c
         IN  <<SubSeq(s, 1, k - 1)>> \o Split(SubSeq(s, k + 1, Len(s)), c)

\* sep.join(parts)
RECURSIVE Join(_, _)
Join(parts, sep) ==
    IF parts = <<>> THEN <<>>
    ELSE IF Len(parts) = 1 THEN parts[1]
    ELSE parts[1] \o sep \o Join(Tail(parts), sep)

---------------------------------------------------------------------------
(* float(s) and the two number formats.  A float literal is read here as   *)
(* digits with at most one point (surrounding whitespace allowed, as       *)
(* float allows it); signs, exponents, inf and nan are outside the         *)
(* alphabets the inputs below are drawn from.                              *)

IsDigits(s) == \A i \in 1..Len(s) : s[i] \in Digits

PointAt(s) ==
    IF \E i \in 1..Len(s) : s[i] = "."
    THEN CHOOSE i \in 1..Len(s) : s[i] = "." /\ \A j \in 1..(i - 1) : s[j] /= "."
    ELSE Len(s) + 1

IntDigits(s) == SubSeq(s, 1, PointAt(s) - 1)
FracDigits(s) == SubSeq(s, PointAt(s) + 1, Len(s))

\* float(s) does not raise ValueError
IsFloat(s) ==
    LET t == Strip(s)
    IN  /\ IsDigits(IntDigits(t))
        /\ IsDigits(FracDigits(t))
        /\ IntDigits(t) \o FracDigits(t) /= <<>>

RECURSIVE DropLeadingZeros(_)
DropLeadingZeros(s) ==
    IF s /= <<>> /\ Head(s) = "0" THEN DropLeadingZeros(Tail(s)) ELSE s

RECURSIVE DropTrailingZeros(_)
DropTrailingZeros(s) ==
    IF s /= <<>> /\ s[Len(s)] = "0"
    THEN DropTrailingZeros(SubSeq(s, 1, Len(s) - 1))
    ELSE s

\* f"{float(s):g}" for a literal of at most six significant digits that
\* is zero or at least 0.0001: no exponent, no trailing zeros
FormatG(s) ==
    LET t == Strip(s)
        i == DropLeadingZeros(IntDigits(t))
        f == DropTrailingZeros(FracDigits(t))
    IN  (IF i = <<>> THEN <<"0">> ELSE i) \o (IF f = <<>> THEN <<>> ELSE <<".">> \o f)

---------------------------------------------------------------------------
(* format_size *)

format_size(amount, uom) ==
    IF Truthy(uom) /\ ~Truthy(amount) THEN <<>>
    ELSE
      LET amount_str ==
              IF Truthy(amount)
              THEN IF IsFloat(amount) THEN FormatG(amount) ELSE Strip(Str(amount))
              ELSE <<>>
          uom_stripped == Strip(Str(uom))
          uom_upper == Upper(uom_stripped)
          uom_abbr ==
              IF Truthy(uom)
              THEN IF uom_upper = <<"M","I","L","L","I","G","R","A","M","S">> THEN <<"m","g">>
                   ELSE IF uom_upper = <<"G","R","A","M","S">> THEN <<"g">>
                   ELSE uom_stripped
              ELSE uom
      IN  IF Truthy(amount_str) \/ Truthy(uom_abbr)
          THEN Strip(amount_str \o <<" ">> \o Str(uom_abbr))
          ELSE <<>>

---------------------------------------------------------------------------
(* The other field extractors. *)

RECURSIVE DigitsToNat(_)
DigitsToNat(s) ==
    IF s = <<>> THEN 0
    ELSE 10 * DigitsToNat(SubSeq(s, 1, Len(s) - 1))
         + (CHOOSE d \in 0..9 : ToString(d) = s[Len(s)])

RECURSIVE NatToDigits(_)
NatToDigits(n) ==
    IF n < 10 THEN <<ToString(n)>>
    ELSE NatToDigits(n \div 10) \o <<ToString(n % 10)>>

\* f"{float(s):.2f}": the value in hundredths, rounded on the decimal
\* digits (a tie goes to the even hundredth, as it does for a float that
\* holds the literal exactly)
FormatFixed2(s) ==
    LET t == Strip(s)
        f == FracDigits(t) \o <<"0","0","0">>
        hundredths == DigitsToNat(IntDigits(t) \o SubSeq(f, 1, 2))
        rest == DropTrailingZeros(SubSeq(f, 3, Len(f)))
        up == IF rest = <<>> THEN FALSE
              ELSE IF rest = <<"5">> THEN hundredths % 2 = 1
              ELSE DigitsToNat(<<rest[1]>>) >= 5
        n == IF up THEN hundredths + 1 ELSE hundredths
        cents == NatToDigits(n % 100)
    IN  NatToDigits(n \div 100) \o <<".">>
        \o (IF Len(cents) = 1 THEN <<"0">> ELSE <<>>) \o cents

format_price(price_str) ==
    IF ~Truthy(price_str) \/ Strip(price_str) = <<>> THEN <<"$","0",".","0","0">>
    ELSE LET clean_price == Strip(Remove(price_str, "$"))
         IN  IF IsFloat(clean_price)
             THEN <<"$">> \o FormatFixed2(clean_price)
             ELSE <<"$","0",".","0","0">>

\* the longest run of digits at the start of s
RECURSIVE DigitRun(_)
DigitRun(s) ==
    IF s /= <<>> /\ Head(s) \in Digits
    THEN <<Head(s)>> \o DigitRun(Tail(s))
    ELSE <<>>

\* re.search(r'\d+\.?\d*', s).group(), <<>> when there is no match
FirstNumber(s) ==
    IF \A i \in 1..Len(s) : s[i] \notin Digits THEN <<>>
    ELSE LET k == CHOOSE i \in 1..Len(s) :
                     s[i] \in Digits /\ \A j \in 1..(i - 1) : s[j] \notin Digits
             whole == DigitRun(SubSeq(s, k, Len(s)))
             after == SubSeq(s, k + Len(whole), Len(s))
         IN  IF after /= <<>> /\ Head(after) = "."
             THEN whole \o <<".">> \o DigitRun(Tail(after))
             ELSE whole

extract_numeric_with_unit(value_str, unit) ==
    IF ~Truthy(value_str) \/ Strip(value_str) = <<>> THEN <<"N","/","A">>
    ELSE IF FirstNumber(Str(value_str)) /= <<>>
         THEN FirstNumber(Str(value_str)) \o unit
         ELSE <<"N","/","A">>

\* [s.strip() for s in barcode_str.split(',')]
Entries(barcode_str) ==
    LET parts == Split(barcode_str, ",")
    IN  [i \in 1..Len(parts) |-> Strip(parts[i])]

IsShortCode(e) == Len(e) \in {3, 4} /\ IsAlnum(e)
IsLongCode(e) == Len(e) > 4

extract_short_barcodes(barcode_str) ==
    IF ~Truthy(barcode_str) \/ Strip(barcode_str) = <<>> THEN <<"N","U","L","L">>
    ELSE LET short_codes == SelectSeq(Entries(barcode_str), IsShortCode)
         IN  IF short_codes /= <<>> THEN Join(short_codes, <<",">>) ELSE <<"N","U","L","L">>

extract_long_barcodes(barcode_str) ==
    IF ~Truthy(barcode_str) \/ Strip(barcode_str) = <<>> THEN <<"N","U","L","L">>
    ELSE LET long_codes == SelectSeq(Entries(barcode_str), IsLongCode)
         IN  IF long_codes /= <<>> THEN Join(long_codes, <<",">>) ELSE <<"N","U","L","L">>

---------------------------------------------------------------------------
(* Rows.  A row is a function from column names to values (a str or       *)
(* None).  A column name is a sequence of pieces: the byte-order mark, a   *)
(* whitespace character, or a name that has neither at its ends, so that   *)
(* the header clean-up acts on it as on the str.                           *)

BOM == "\\ufeff"

\* row.get(col, default)
Get(row, col, default) == IF <<col>> \in DOMAIN row THEN row[<<col>>] ELSE default

RECURSIVE combine_columns(_, _, _)
combine_columns(row, columns, separator) ==
    IF columns = <<>> THEN <<>>
    ELSE LET val == Get(row, Head(columns), <<>>)
             rest == combine_columns(row, Tail(columns), separator)
         IN  IF val /= NoneValue /\ Strip(Str(val)) /= <<>>
             THEN IF rest = <<>> THEN Strip(Str(val))
                  ELSE Strip(Str(val)) \o separator \o rest
             ELSE rest

is_url(text) ==
    IF ~Truthy(text) THEN FALSE
    ELSE LET t == Lower(Strip(Str(text)))
         IN  \/ StartsWith(t, <<"h","t","t","p",":","/","/">>)
             \/ StartsWith(t, <<"h","t","t","p","s",":","/","/">>)
             \/ StartsWith(t, <<"w","w","w",".">>)

---------------------------------------------------------------------------
(* transform_row.  Its result is [raised, transformed, error]: raised      *)
(* when the call ends in an exception (AttributeError, None.strip()),      *)
(* else the returned pair, <<>> standing for None and <<x>> for x.  An     *)
(* error message is the pair of its literal text and the value formatted   *)
(* into it.                                                                *)

valid_classifications ==
    {<<"s","a","t","i","v","a">>, <<"i","n","d","i","c","a">>, <<"h","y","b","r","i","d">>, <<"s","/","i">>, <<"i","/","s">>, <<"c","b","d">>}

tags_cols == <<"Attributes - General", "Attributes - Effects",
               "Attributes - Ingredients", "Attributes - Internal Tags">>

image_cols == <<"Image1", "Image2", "Image3", "Image4",
                "Image5", "Image6", "Image7", "Image8">>

output_columns ==
    <<"External ID", "Name", "Product Type", "Category", "Subcategory",
      "Brand", "Strain", "Strain Prevalence", "Quality Line",
      "Product Description", "Instructions", "Attributes - Flavors", "Scents",
      "Tags", "Images", "Former Name", "Variant Name", "Size",
      "Units in Package", "Price", "Medical Price", "SKU", "THC / Unit",
      "CBD / Unit", "Infused Content", "Strength Level", "Sale Type",
      "Barcode", "E-Commerce Enabled", "Sell By Weight">>

Returned(output, err) == [raised |-> FALSE, transformed |-> output, error |-> err]
Raised == [raised |-> TRUE, transformed |-> <<>>, error |-> <<>>]

\* Menu Title if populated, otherwise Name
final_name(row) ==
    LET menu_title_raw == Get(row, "Menu Title", <<>>)
        name_raw == Get(row, "Name", <<>>)
        menu_title == IF Truthy(menu_title_raw) THEN Strip(Str(menu_title_raw)) ELSE <<>>
        name == IF Truthy(name_raw) THEN Strip(Str(name_raw)) ELSE <<>>
    IN  IF Truthy(menu_title) THEN menu_title ELSE name

\* the classification after strip, lower and "none" -> ""
classification(row) ==
    LET c == Lower(Strip(Get(row, "Classification", <<>>)))
    IN  IF c = <<"n","o","n","e">> THEN <<>> ELSE c

\* mutant of needs_thc_cbd: the list of categories misses Tinctures
needs_thc_cbd_without_tinctures(category) ==
    category \in {<<"E","d","i","b","l","e","s">>, <<"T","o","p","i","c","a","l","s">>}

needs_thc_cbd(category) ==
    category \in {<<"E","d","i","b","l","e","s">>, <<"T","o","p","i","c","a","l","s">>, <<"T","i","n","c","t","u","r","e","s">>}

external_id(row) ==
    LET product_id_raw == Get(row, "Product ID", <<>>)
    IN  IF product_id_raw /= NoneValue /\ Strip(Str(product_id_raw)) /= <<>>
        THEN Strip(Str(product_id_raw))
        ELSE <<>>

\* the output dict built from a row that passed every check
BuildOutput(row) ==
    LET category == Strip(Get(row, "Product Type", <<>>))
        doses == Strip(Get(row, "Doses", <<>>))
        units_in_package == IF ~Truthy(doses) THEN <<"1">> ELSE doses
        price_stripped == Strip(Get(row, "Price/Tier", <<>>))
        price_raw == IF ~Truthy(price_stripped) THEN <<"0",".","0","1">> ELSE price_stripped
        flavors_raw == Get(row, "Flavors", <<>>)
        flavors == IF flavors_raw /= NoneValue THEN Strip(Str(flavors_raw)) ELSE flavors_raw
    IN  [c \in Range(output_columns) |->
          CASE c = "External ID" -> external_id(row)
            [] c = "Name" -> final_name(row)
            [] c = "Product Type" -> Get(row, "Subtype", <<>>)
            [] c = "Category" -> category
            [] c = "Subcategory" -> <<"N","o","n","e">>
            [] c = "Brand" -> Get(row, "Brand", <<>>)
            [] c = "Strain" -> <<"U","n","d","e","f","i","n","e","d">>
            [] c = "Strain Prevalence" ->
                 IF Truthy(classification(row))
                 THEN Get(row, "Classification", <<>>) ELSE <<>>
            [] c = "Quality Line" -> <<"B","r","o","n","z","e">>
            [] c = "Product Description" -> Get(row, "Description", <<>>)
            [] c = "Instructions" -> <<"N","o","n","e">>
            [] c = "Attributes - Flavors" ->
                 IF Truthy(flavors) THEN flavors ELSE <<"N","o","n","e">>
            [] c = "Scents" -> <<"N","/","A">>
            [] c = "Tags" -> combine_columns(row, tags_cols, <<",">>)
            [] c = "Images" -> combine_columns(row, image_cols, <<",">>)
            [] c = "Former Name" -> <<"N","/","A">>
            [] c = "Variant Name" -> <<"N","/","A">>
            [] c = "Size" ->
                 format_size(Get(row, "Amount", <<>>), Get(row, "UoM", <<>>))
            [] c = "Units in Package" -> units_in_package
            [] c = "Price" -> format_price(price_raw)
            [] c = "Medical Price" -> <<"N","/","A">>
            [] c = "SKU" ->
                 extract_short_barcodes(Get(row, "Product Barcodes", <<>>))
            [] c = "THC / Unit" -> Get(row, "Total Mg THC", <<>>)
            [] c = "CBD / Unit" -> Get(row, "Total Mg CBD", <<>>)
            [] c = "Infused Content" -> <<"N","/","A">>
            [] c = "Strength Level" ->
                 extract_numeric_with_unit(Get(row, "Mg Per Dose", <<>>), <<"m","g">>)
            [] c = "Sale Type" -> <<"M","e","d","i","c","a","l"," ","a","n","d"," ","R","e","c","r","e","a","t","i","o","n","a","l">>
            [] c = "Barcode" ->
                 extract_long_barcodes(Get(row, "Product Barcodes", <<>>))
            [] c = "E-Commerce Enabled" -> <<"T","r","u","e">>
            [] c = "Sell By Weight" -> <<"F","a","l","s","e">>]

transform_row(row) ==
    IF ~Truthy(final_name(row))
    THEN Returned(<<>>, <<"Both Menu Title and Name are empty", <<>>>>)
    ELSE IF is_url(final_name(row))
    THEN Returned(<<>>, <<"Name is a URL: ", final_name(row)>>)
    ELSE IF Get(row, "Classification", <<>>) = NoneValue
    THEN Raised
    ELSE IF Truthy(classification(row))
            /\ classification(row) \notin valid_classifications
    THEN Returned(<<>>, <<"Invalid Classification: ",
                          Get(row, "Classification", <<>>)>>)
    ELSE IF Get(row, "Product Type", <<>>) = NoneValue
    THEN Raised
    ELSE IF ~Truthy(Strip(Get(row, "Product Type", <<>>)))
    THEN Returned(<<>>, <<"Empty Category", <<>>>>)
    ELSE IF Get(row, "Doses", <<>>) = NoneValue
    THEN Raised
    ELSE IF Get(row, "Price/Tier", <<>>) = NoneValue
    THEN Raised
    ELSE IF needs_thc_cbd(Strip(Get(row, "Product Type", <<>>)))
    THEN IF Get(row, "Total Mg THC", <<>>) = NoneValue
         THEN Raised
         ELSE IF Get(row, "Total Mg CBD", <<>>) = NoneValue
         THEN Raised
         ELSE IF \/ ~Truthy(Strip(Get(row, "Total Mg THC", <<>>)))
                 \/ ~Truthy(Strip(Get(row, "Total Mg CBD", <<>>)))
         THEN Returned(<<>>, <<"Missing THC/CBD for ",
                               Strip(Get(row, "Product Type", <<>>))>>)
         ELSE Returned(<<BuildOutput(row)>>, <<>>)
    ELSE Returned(<<BuildOutput(row)>>, <<>>)

---------------------------------------------------------------------------
(* csv.DictReader and normalize_headers.  A raw row is the dict the        *)
(* reader yields, as the sequence of its (key, value) items in insertion   *)
(* order.                                                                  *)

\* the keys of dict(zip(...)) in insertion order: first occurrences
RECURSIVE Dedupe(_)
Dedupe(s) ==
    IF s = <<>> THEN <<>>
    ELSE LET d == Dedupe(SubSeq(s, 1, Len(s) - 1))
         IN  IF s[Len(s)] \in Range(d) THEN d ELSE Append(d, s[Len(s)])

\* csv.DictReader.__next__: the cells under the header's names, None
\* (restval) for the names a short line leaves out, the cells beyond the
\* header as a list under the key None (restkey)
DictReaderRow(fieldnames, cells) ==
    LET keys == Dedupe(fieldnames)
        last(k) == CHOOSE i \in 1..Len(fieldnames) :
                      /\ fieldnames[i] = k
                      /\ \A j \in (i + 1)..Len(fieldnames) : fieldnames[j] /= k
        named == [n \in 1..Len(keys) |->
                    <<keys[n], IF last(keys[n]) <= Len(cells)
                               THEN cells[last(keys[n])]
                               ELSE NoneValue>>]
    IN  IF Len(cells) > Len(fieldnames)
        THEN Append(named, <<NoneValue,
                             SubSeq(cells, Len(fieldnames) + 1, Len(cells))>>)
        ELSE named

RECURSIVE normalize_headers(_)
normalize_headers(items) ==
    IF items = <<>> THEN <<>>
    ELSE LET normalized == normalize_headers(SubSeq(items, 1, Len(items) - 1))
             key == items[Len(items)][1]
             value == items[Len(items)][2]
             clean_key == Strip(Remove(key, BOM))
         IN  IF Truthy(key)
             THEN (clean_key :> value) @@ normalized
             ELSE normalized

---------------------------------------------------------------------------
(* process_csv *)

\* mutant of NewFilteredRows: the list is module-level and is never reset
KeptFilteredRows == filtered_rows

\* line 256: filtered_rows = []
NewFilteredRows == <<>>

\* line 257: skipped_rows = []
NewSkippedRows == <<>>

\* lines 282-283
AppendFiltered(rows, res) ==
    IF res.transformed /= <<>> THEN Append(rows, res.transformed[1]) ELSE rows

\* mutant of AppendSkipped: the else is lost and every row is logged
AppendSkippedAlways(skipped, res, idx, row) ==
    Append(skipped,
           <<idx, res.error, Get(row, "Menu Title", Get(row, "Name", <<"N","/","A">>))>>)

\* lines 284-285
AppendSkipped(skipped, res, idx, row) ==
    IF res.transformed /= <<>> THEN skipped
    ELSE Append(skipped,
                <<idx, res.error,
                  Get(row, "Menu Title", Get(row, "Name", <<"N","/","A">>))>>)

\* csv.DictWriter.writerows: the cells of each record in the order of
\* fieldnames, None written as the empty field (quoting is not modelled)
CsvRows(records) ==
    [n \in 1..Len(records) |->
        [i \in 1..Len(output_columns) |->
            IF records[n][output_columns[i]] = NoneValue THEN <<>>
            ELSE records[n][output_columns[i]]]]

\* list(first_row.keys()) if first_row else []
AvailableCols(first) ==
    IF first = <<>> THEN <<>>
    ELSE [i \in 1..Len(first[1]) |-> first[1][i][1]]

Headers ==
    { << <<BOM, "Product ID">>, <<"Menu Title">>, <<" ", "Name", " ">>,
         <<"Classification">>, <<"Product Type">>, <<"Total Mg THC">>,
         <<"Total Mg CBD">>, <<"Amount">>, <<"UoM">>, <<"Subtype">> >>,
      << <<"Product ID">>, <<"Name">>, <<"Name", "\t">>,
         <<"Classification">>, <<" ", "Product Type">>, <<>> >> }

\* the data lines a file may hold, as the cells csv.reader splits them into
Lines ==
    { <<<<"1">>, <<"K","u","s","h">>, <<>>, <<"h","y","b","r","i","d">>, <<"F","l","o","w","e","r">>, <<>>, <<>>,
        <<"3",".","5","0">>, <<"G","R","A","M","S">>, <<"I","n","d","o","o","r">>>>,
      <<<<" ","1"," ">>, <<"K","u","s","h"," ","B">>, <<>>, <<"I","n","d","i","c","a">>, <<"F","l","o","w","e","r">>, <<>>, <<>>,
        <<"1">>, <<"g">>, <<"O","u","t","d","o","o","r">>>>,
      <<<<>>, <<"k","u","s","h"," ">>, <<>>, <<"H","Y","B","R","I","D">>, <<"F","l","o","w","e","r">>, <<>>, <<>>,
        <<"3",".","5">>, <<"g","r","a","m","s">>>>,
      <<<<"2">>, <<>>, <<"K","u","s","h">>, <<"h","y","b","r","i","d">>, <<"F","l","o","w","e","r">>, <<>>, <<>>,
        <<" ">>, <<"G","R","A","M","S">>>>,
      <<<<"3">>, <<"G","u","m","m","y">>, <<>>, <<>>, <<"E","d","i","b","l","e","s">>, <<"1","0">>, <<" ">>>>,
      <<<<"3">>, <<"G","u","m","m","y">>, <<>>, <<"n","o","n","e">>, <<"E","d","i","b","l","e","s">>, <<"1","0">>, <<"2">>>>,
      <<<<"4">>, <<"G","u","m","m","y">>, <<>>, <<"c","b","d">>, <<"T","i","n","c","t","u","r","e","s">>, <<"5">>>>,
      <<<<"5">>, <<"B","a","l","m">>, <<>>, <<"c","b","d">>>>,
      <<<<"6">>, <<"B","O","G","O"," ","K","u","s","h">>, <<>>, <<>>, <<"F","l","o","w","e","r">>>>,
      <<<<"7">>, <<>>, <<"w","w","w",".","a",".","c","o">>, <<"p","u","r","p","l","e">>, <<>>>>,
      <<<<"8">>, <<"K","u","s","h">>, <<>>, <<"p","u","r","p","l","e">>, <<>>>>,
      <<<<"9">>, <<"K","u","s","h">>, <<>>, <<"i","/","s">>, <<" ">>>>,
      <<<<>>, <<>>>>,
      <<<<"3">>, <<"O","i","l">>, <<>>, <<"s","/","i">>, <<"T","o","p","i","c","a","l","s">>, <<"1">>, <<"1">>,
        <<"1">>, <<"o","z">>, <<>>, <<"e","x","t","r","a">>>> }

Init ==
    /\ pc = "reading"
    /\ header \in Headers
    /\ batch = <<>>
    /\ filtered_rows = <<>>
    /\ skipped_rows = <<>>
    /\ row_count = 0
    /\ first_row = <<>>
    /\ returned = <<>>
    /\ uploads = 1
    /\ rows_before = 0
    /\ arg = <<>>
    /\ ret = <<>>

\* lines 267-285: one iteration of the loop over the reader
ProcessRow(cells) ==
    /\ pc = "reading"
    /\ Len(batch) < MaxRows
    /\ LET idx == Len(batch) + 2
           raw == DictReaderRow(header, cells)
           row == normalize_headers(raw)
           res == transform_row(row)
       IN  /\ batch' = Append(batch, cells)
           /\ row_count' = row_count + 1
           /\ first_row' = IF first_row = <<>> THEN <<raw>> ELSE first_row
           /\ IF res.raised
              THEN /\ pc' = "raised"
                   /\ UNCHANGED <<filtered_rows, skipped_rows>>
              ELSE /\ pc' = "reading"
                   /\ filtered_rows' = AppendFiltered(filtered_rows, res)
                   /\ skipped_rows' = AppendSkipped(skipped_rows, res, idx, row)
    /\ UNCHANGED <<header, returned, uploads, rows_before, arg, ret>>

\* lines 287-296: the reader is exhausted
Finish ==
    /\ pc = "reading"
    /\ returned' = <<[output |-> [fieldnames |-> output_columns,
                                  rows |-> CsvRows(filtered_rows)],
                      processed_count |-> Len(filtered_rows),
                      skipped_rows |-> skipped_rows,
                      available_cols |-> AvailableCols(first_row)]>>
    /\ pc' = "done"
    /\ UNCHANGED <<header, batch, filtered_rows, skipped_rows, row_count,
                   first_row, uploads, rows_before, arg, ret>>

\* lines 305-310: another file is uploaded and process_csv is called anew
Upload ==
    /\ pc \in {"done", "raised"}
    /\ uploads < MaxUploads
    /\ header' \in Headers
    /\ batch' = <<>>
    /\ filtered_rows' = NewFilteredRows
    /\ skipped_rows' = NewSkippedRows
    /\ row_count' = 0
    /\ first_row' = <<>>
    /\ returned' = <<>>
    /\ pc' = "reading"
    /\ uploads' = uploads + 1
    /\ rows_before' = rows_before + Len(batch)
    /\ UNCHANGED <<arg, ret>>

Next ==
    \/ \E cells \in Lines : ProcessRow(cells)
    \/ Finish
    \/ Upload

Spec == Init /\ [][Next]_vars

---------------------------------------------------------------------------
(* A single call of format_size on every amount and unit of the sets.     *)

RECURSIVE SeqsUpTo(_, _)
SeqsUpTo(S, n) ==
    IF n = 0 THEN {<<>>}
    ELSE LET shorter == SeqsUpTo(S, n - 1)
         IN  shorter \cup {Append(s, c) : s \in shorter, c \in S}

AmountChars == {"5", "0", ".", " ", "x"}
Amounts == SeqsUpTo(AmountChars, MaxAmountLen) \cup {NoneValue}
Uoms == {NoneValue, <<>>, <<" ">>, <<"g">>, <<"G","R","A","M","S">>, <<"g","r","a","m","s">>, <<" ","G","r","a","m","s"," ">>,
         <<"M","I","L","L","I","G","R","A","M","S">>, <<"M","i","l","l","i","g","r","a","m","s">>, <<"o","z">>, <<"m","l"," ">>}

Idle ==
    /\ header = <<>> /\ batch = <<>> /\ filtered_rows = <<>>
    /\ skipped_rows = <<>> /\ row_count = 0 /\ first_row = <<>>
    /\ returned = <<>> /\ uploads = 0 /\ rows_before = 0

InitSize ==
    /\ Idle
    /\ pc = "format_size"
    /\ arg \in {<<a, u>> : a \in Amounts, u \in Uoms}
    /\ ret = <<>>

CallFormatSize ==
    /\ pc = "format_size"
    /\ ret' = <<format_size(arg[1], arg[2])>>
    /\ pc' = "returned"
    /\ UNCHANGED <<header, batch, filtered_rows, skipped_rows, row_count,
                   first_row, returned, uploads, rows_before, arg>>

NextSize == CallFormatSize

SpecSize == InitSize /\ [][NextSize]_vars

---------------------------------------------------------------------------
(* A single call of transform_row on every row of a product of field      *)
(* values.  Any set of columns can be missing from a header, and any set   *)
(* can be the tail a short line leaves without a value (None), the         *)
(* columns being in any order.                                             *)

Absent == <<"<absent>">>

Field(col, v) == IF v = Absent THEN <<>> ELSE (<<col>> :> v)

NamePairs ==
    {<<Absent, Absent>>, <<NoneValue, <<" ">>>>, <<<<>>, <<"K","u","s","h">>>>,
     <<<<" ","K","u","s","h"," ">>, <<"w","w","w",".","b">>>>, <<Absent, <<"w","w","w",".","a",".","c","o">>>>,
     <<<<"H","T","T","P","S",":","/","/","a">>, Absent>>, <<<<" ","h","t","t","p",":","/","/","a">>, NoneValue>>,
     <<<<"B","O","G","O"," ","K","u","s","h">>, Absent>>, <<<<"P","r","o","m","o">>, <<"K","u","s","h">>>>,
     <<<<"K","u","s","h"," ","$","5">>, Absent>>, <<<<>>, <<" ","b","o","g","o">>>>}

Classifications ==
    {Absent, NoneValue, <<>>, <<" ","H","y","b","r","i","d"," ">>, <<"N","O","N","E">>, <<"p","u","r","p","l","e">>, <<"s","/","i">>, <<" ">>}

ProductTypes ==
    {Absent, NoneValue, <<" ">>, <<"F","l","o","w","e","r">>, <<"E","d","i","b","l","e","s">>, <<" ","T","i","n","c","t","u","r","e","s"," ">>,
     <<"T","o","p","i","c","a","l","s">>, <<"e","d","i","b","l","e","s">>}

Potencies ==
    {<<Absent, Absent>>, <<<<"5","m","g">>, <<" ","5"," ">>>>, <<<<" ">>, <<"5">>>>,
     <<<<"5">>, <<>>>>, <<NoneValue, <<"5">>>>, <<<<"5">>, NoneValue>>,
     <<NoneValue, NoneValue>>}

\* the remaining columns, several at a time
Others ==
    { <<>>,
      Field("Product ID", <<" ","1","7"," ">>) @@ Field("Subtype", <<"I","n","d","o","o","r">>)
        @@ Field("Brand", <<"A","c","m","e">>) @@ Field("Description", <<"N","i","c","e",","," ","d","r","y">>)
        @@ Field("Doses", <<" ","1","0"," ">>) @@ Field("Price/Tier", <<"$","1","2">>)
        @@ Field("Amount", <<"3",".","5","0">>) @@ Field("UoM", <<"G","R","A","M","S">>)
        @@ Field("Flavors", <<" ","L","i","m","e"," ">>) @@ Field("Mg Per Dose", <<"x","1",".","5",".","2">>)
        @@ Field("Product Barcodes", <<"A","B","C",","," ","1","2","3","4","5",","," ","D","E","1","2">>)
        @@ Field("Attributes - General", <<"a">>)
        @@ Field("Attributes - Internal Tags", <<" ","b"," ">>)
        @@ Field("Image1", <<"i","1">>) @@ Field("Image8", <<"i","8">>),
      Field("Product ID", NoneValue) @@ Field("Subtype", NoneValue)
        @@ Field("Brand", NoneValue) @@ Field("Description", NoneValue)
        @@ Field("Doses", <<>>) @@ Field("Price/Tier", <<>>)
        @@ Field("Amount", NoneValue) @@ Field("UoM", NoneValue)
        @@ Field("Flavors", NoneValue) @@ Field("Mg Per Dose", NoneValue)
        @@ Field("Product Barcodes", NoneValue)
        @@ Field("Attributes - Effects", NoneValue)
        @@ Field("Image2", NoneValue),
      Field("Product ID", <<>>) @@ Field("Subtype", <<>>)
        @@ Field("Doses", <<" ">>) @@ Field("Price/Tier", <<"1","9",".","9","9","9">>)
        @@ Field("Amount", <<" ">>) @@ Field("UoM", <<"G","R","A","M","S">>)
        @@ Field("Flavors", <<" ">>) @@ Field("Mg Per Dose", <<"1","0",".">>)
        @@ Field("Product Barcodes", <<"1","2","3","4","5">>)
        @@ Field("Attributes - General", <<" ">>)
        @@ Field("Attributes - Effects", <<"e">>)
        @@ Field("Attributes - Ingredients", <<"f">>),
      Field("Product ID", <<"A","1">>) @@ Field("Doses", NoneValue)
        @@ Field("Price/Tier", <<"1">>),
      Field("Product ID", <<"A","1">>) @@ Field("Doses", <<"2">>)
        @@ Field("Price/Tier", NoneValue),
      Field("Subtype", NoneValue) @@ Field("Price/Tier", <<"f","r","e","e">>)
        @@ Field("Amount", <<"5">>) @@ Field("UoM", NoneValue)
        @@ Field("Mg Per Dose", <<"n","o","n","e">>)
        @@ Field("Product Barcodes", <<"a"," ","b",",","a","b","c","d",","," ",",","x","y">>),
      Field("Brand", <<"A","c","m","e">>) @@ Field("Price/Tier", <<" ","0",".","1","2","5"," ">>)
        @@ Field("Amount", <<"1","/","8">>) @@ Field("UoM", <<" ","o","z"," ">>)
        @@ Field("Total Mg THC", <<"9">>) }

RowInputs ==
    { Field("Menu Title", n[1]) @@ Field("Name", n[2])
        @@ Field("Classification", c) @@ Field("Product Type", t)
        @@ Field("Total Mg THC", p[1]) @@ Field("Total Mg CBD", p[2]) @@ o :
      n \in NamePairs, c \in Classifications, t \in ProductTypes,
      p \in Potencies, o \in Others }

InitRow ==
    /\ Idle
    /\ pc = "transform_row"
    /\ arg \in RowInputs
    /\ ret = <<>>

CallTransformRow ==
    /\ pc = "transform_row"
    /\ ret' = <<transform_row(arg)>>
    /\ pc' = "returned"
    /\ UNCHANGED <<header, batch, filtered_rows, skipped_rows, row_count,
                   first_row, returned, uploads, rows_before, arg>>

NextRow == CallTransformRow

SpecRow == InitRow /\ [][NextRow]_vars

---------------------------------------------------------------------------
(* Properties of process_csv, under Spec. *)

\* the n-th data row of the file as transform_row receives it
RowAt(n) == normalize_headers(DictReaderRow(header, batch[n]))
ResultAt(n) == transform_row(RowAt(n))
AdmittedAt(n) == ~ResultAt(n).raised /\ ResultAt(n).transformed /= <<>>
RecordAt(n) == ResultAt(n).transformed[1]

\* the rows 1..n admitted with External ID id
AdmittedWith(id) ==
    {n \in 1..Len(batch) : AdmittedAt(n) /\ RecordAt(n)["External ID"] = id}

Min(S) == CHOOSE x \in S : \A y \in S : x <= y
Max(S) == CHOOSE x \in S : \A y \in S : x >= y

\* C1: when two or more admitted rows of a batch share a non-empty
\* External ID, the final output holds exactly one record with that id,
\* it carries the field values of the last of those rows, and a rejection
\* entry is logged for the superseded first row.
C1_OneRecordPerExternalId ==
    pc = "done" =>
      \A n \in 1..Len(batch) :
        (AdmittedAt(n) /\ RecordAt(n)["External ID"] /= <<>>
           /\ Cardinality(AdmittedWith(RecordAt(n)["External ID"])) >= 2) =>
          LET id == RecordAt(n)["External ID"]
              at == {k \in 1..Len(filtered_rows) :
                        filtered_rows[k]["External ID"] = id}
          IN  /\ Cardinality(at) = 1
              /\ \A k \in at : filtered_rows[k] = RecordAt(Max(AdmittedWith(id)))
              /\ \E k \in 1..Len(skipped_rows) :
                    skipped_rows[k][1] = Min(AdmittedWith(id)) + 1

\* (lowercased trimmed Name, Size, Strain Prevalence) of a record
FuzzyKey(record) ==
    <<Lower(Strip(record["Name"])), Lower(Strip(record["Size"])),
      Lower(Strip(record["Strain Prevalence"]))>>

\* C2: a step that admits a row with no exact-key match whose fuzzy key
\* has a non-empty name and equals that of an earlier emitted record
\* replaces that record in place, does not grow the output and logs one
\* rejection entry.
C2_FuzzyDuplicateReplaces ==
    [][ (/\ pc = "reading"
         /\ Len(batch') = Len(batch) + 1
         /\ LET res == transform_row(
                         normalize_headers(
                           DictReaderRow(header, batch'[Len(batch')])))
            IN  /\ ~res.raised
                /\ res.transformed /= <<>>
                /\ \/ res.transformed[1]["External ID"] = <<>>
                   \/ \A k \in 1..Len(filtered_rows) :
                         filtered_rows[k]["External ID"]
                           /= res.transformed[1]["External ID"]
                /\ FuzzyKey(res.transformed[1])[1] /= <<>>
                /\ \E k \in 1..Len(filtered_rows) :
                      FuzzyKey(filtered_rows[k]) = FuzzyKey(res.transformed[1]))
        => (/\ Len(filtered_rows') = Len(filtered_rows)
            /\ Len(skipped_rows') = Len(skipped_rows) + 1
            /\ \E k \in 1..Len(filtered_rows) :
                  /\ FuzzyKey(filtered_rows[k]) = FuzzyKey(filtered_rows'[k])
                  /\ filtered_rows'[k] =
                       transform_row(
                         normalize_headers(
                           DictReaderRow(header, batch'[Len(batch')])
                         )).transformed[1]) ]_vars

\* C3: when process_csv has consumed a batch of n rows to completion, the
\* records of the output plus the rejection entries number n, and the
\* reported count is the number of records in the output.
C3_EveryRowAccountedOnce ==
    pc = "done" =>
      /\ Len(returned[1].output.rows) + Len(returned[1].skipped_rows)
           = Len(batch)
      /\ returned[1].processed_count = Len(returned[1].output.rows)

C3_Witness ==
    /\ pc = "done"
    /\ Len(batch) >= 2
    /\ Len(returned[1].output.rows) >= 1
    /\ Len(returned[1].skipped_rows) >= 1

\* C4: no row aborts the batch: whatever fields a row lacks, no exception
\* leaves transform_row, and every row read so far is in the output or in
\* the rejection log.
C4_NoRowAbortsBatch ==
    /\ pc /= "raised"
    /\ Len(filtered_rows) + Len(skipped_rows) = Len(batch)

\* C6: every admitted record holds every field of the output schema, and
\* none of them is None, also when the row gives an optional source column
\* no value.
C6_EveryFieldPresentNonNull ==
    \A n \in 1..Len(filtered_rows) :
      \A i \in 1..Len(output_columns) :
        /\ output_columns[i] \in DOMAIN filtered_rows[n]
        /\ filtered_rows[n][output_columns[i]] /= NoneValue

\* what process_csv returns for the rows of b alone, started from empty lists
RECURSIVE FilteredAlone(_, _)
FilteredAlone(h, b) ==
    IF b = <<>> THEN <<>>
    ELSE AppendFiltered(
           FilteredAlone(h, SubSeq(b, 1, Len(b) - 1)),
           transform_row(normalize_headers(DictReaderRow(h, b[Len(b)]))))

RECURSIVE SkippedAlone(_, _)
SkippedAlone(h, b) ==
    IF b = <<>> THEN <<>>
    ELSE AppendSkipped(
           SkippedAlone(h, SubSeq(b, 1, Len(b) - 1)),
           transform_row(normalize_headers(DictReaderRow(h, b[Len(b)]))),
           Len(b) + 1,
           normalize_headers(DictReaderRow(h, b[Len(b)])))

\* C8: what process_csv returns for a batch is what it returns for that
\* batch processed alone, whatever was uploaded and processed before.
C8_BatchesIsolated ==
    pc = "done" =>
      /\ returned[1].output.rows = CsvRows(FilteredAlone(header, batch))
      /\ returned[1].processed_count = Len(FilteredAlone(header, batch))
      /\ returned[1].skipped_rows = SkippedAlone(header, batch)

C8_Witness ==
    /\ pc = "done"
    /\ uploads >= 2
    /\ rows_before >= 1
    /\ returned[1].processed_count >= 1
    /\ Len(returned[1].skipped_rows) >= 1

---------------------------------------------------------------------------
(* Properties of transform_row, under SpecRow. *)

\* p in s
Contains(s, p) ==
    \E i \in 1..(Len(s) - Len(p) + 1) : SubSeq(s, i, i + Len(p) - 1) = p

IsPromotional(name) ==
    \/ Contains(Upper(name), <<"P","R","O","M","O">>)
    \/ Contains(Upper(name), <<"B","O","G","O">>)
    \/ Contains(name, <<"$">>)

\* C5: a row whose resolved name contains PROMO or BOGO (in any case) or
\* a '$' is never admitted.
C5_PromotionalNameRejected ==
    (pc = "returned" /\ IsPromotional(final_name(arg))) =>
      ret[1].transformed = <<>>

PotencyCategories == {<<"E","d","i","b","l","e","s">>, <<"T","o","p","i","c","a","l","s">>, <<"T","i","n","c","t","u","r","e","s">>}

NonBlank(v) == v /= NoneValue /\ Strip(v) /= <<>>

\* the row passes every check that precedes the potency check
PassesEarlierChecks(row) ==
    /\ Truthy(final_name(row))
    /\ ~is_url(final_name(row))
    /\ Get(row, "Classification", <<>>) /= NoneValue
    /\ classification(row) \in valid_classifications \cup {<<>>}
    /\ Get(row, "Doses", <<>>) /= NoneValue
    /\ Get(row, "Price/Tier", <<>>) /= NoneValue

FirstFailingCheck(row) ==
    IF ~Truthy(final_name(row)) THEN "Both Menu Title and Name are empty"
    ELSE IF is_url(final_name(row)) THEN "Name is a URL: "
    ELSE IF IsPromotional(final_name(row)) THEN "Promotional Name"
    ELSE IF Truthy(classification(row))
            /\ classification(row) \notin valid_classifications
         THEN "Invalid Classification: "
    ELSE IF ~Truthy(Strip(Get(row, "Product Type", <<>>))) THEN "Empty Category"
    ELSE "Missing THC/CBD for "

\* C9: the reason recorded for a rejected row is that of its first
\* failing check.
C9_FirstFailingCheckWins ==
    (pc = "returned" /\ ~ret[1].raised /\ ret[1].transformed = <<>>) =>
      ret[1].error[1] = FirstFailingCheck(arg)

---------------------------------------------------------------------------
(* Property of format_size, under SpecSize. *)

\* C10: format_size returns the empty string whenever the unit is
\* non-empty and the amount is absent, empty or blank.
C10_NoUnitAlone ==
    (/\ pc = "returned"
     /\ Truthy(arg[2])
     /\ (arg[1] = NoneValue \/ Strip(arg[1]) = <<>>)) =>
      ret[1] = <<>>

===========================================================================
